---- MODULE Spec2Model ----
(***************************************************************************)
(* Model of the programs of the repository:                                *)
(*   ratelimiter.py  RateLimiter (token bucket and quota wait)             *)
(*   toolbox.py      DNSResolver.query_doh_json / mass_query_doh_json      *)
(*   IPResolver.py   IPResolver.query_http / query_json /                  *)
(*                   mass_query_json_ip_api / chunks                       *)
(*   ConwayGOL.py    mainloop / operate_on_each_row (Game of Life)         *)
(*                                                                         *)
(* Time is time.monotonic() in ticks of 0.1 s (the token sleep); token     *)
(* counts are held in thousandths of a token so that the float arithmetic  *)
(* of add_new_tokens is exact for the rates used (0.75/s, 1/s, 20/s).      *)
(* One action is one run of a coroutine between two suspension points.     *)
(***************************************************************************)
EXTENDS Integers, Sequences, FiniteSets, TLC

\* ---------------------------------------------------------------- bounds
RLTasks == 3          \* tasks calling the limiter directly (SpecRL)
MaxTimeRL == 12       \* last clock tick explored by SpecRL
NumEndpoints == 3     \* length of the resolver's doh_name_servers list
MaxBatches == 2       \* mass_query_doh_json calls on one resolver (SpecDohRepeat)
MaxKeys == 2          \* longest target_domains list of one call (SpecDoh)
MaxTimeDoh == 2       \* last clock tick explored by SpecDoh
MaxTimeLive == 16     \* last clock tick explored by SpecDohLive
MaxIps == 250         \* longest target_ips list
MaxIpCalls == 2       \* mass_query_json_ip_api calls on one resolver
MaxTimeIP == 15       \* last clock tick explored by SpecIP
MaxChunkLen == 4      \* longest list given to chunks directly
MaxChunkN == 3        \* largest chunk size given to chunks directly
LifeSize == 3         \* side of the square that holds the initial cells (SpecLife)
MaxGens == 2          \* largest ntimes given to mainloop

\* ------------------------------------------------------- scale constants
TokenUnit == 1000     \* one token ("self.tokens < 1", "self.tokens -= 1")
TokenSleep == 1       \* asyncio.sleep(0.1) in wait_for_token, in ticks
TtlSleep == 5         \* asyncio.sleep(0.5) in wait_for_ttl, in ticks
TicksPerSecond == 10

\* ---------------------------------------------------- program constants
CACHE_SIZE == 128               \* DNSResolver.CACHE_SIZE
DNS_RETRY_CODES == {2, 5, 8, 9}
DefaultRate == 2000             \* rate=20 per second, per tick in thousandths
DefaultXTtl == 600              \* x_ttl=60 seconds, in ticks
DefaultXRl == 1500              \* x_rl=1500
ChunkSize == 99                 \* self.chunks(target_ips, 99)
IpRate == 75                    \* rate=0.75 per second, per tick in thousandths
IpMaxTokens == 2                \* max_tokens=2

VARIABLES
    now,        \* time.monotonic(), in ticks
    rl,         \* client id -> RateLimiter object
    call,       \* task id -> the task's position inside RateLimiter.get/post/put
    firstReq,   \* SpecRL: time of the first call on the limiter, -1 before it
    batch,      \* SpecDoh: the mass_query_doh_json calls made so far
    cache,      \* SpecDoh: the alru_cache of query_doh_json, oldest entry first
    doh,        \* SpecDoh: task id -> the query_doh_json coroutine of that task
    latest,     \* SpecIP: IPResolver._latest_ip_api_resp
    ipt,        \* SpecIP: chunk number -> the query_json coroutine of that chunk
    ipb,        \* SpecIP: the mass_query_json_ip_api call
    gen,        \* SpecIP: a generator made by calling IPResolver.chunks directly
    resolver,   \* the DNSResolver object: whether it exists, _doh_name_servers
    life        \* SpecLife: the mainloop call of ConwayGOL.py

dohVars == <<batch, cache, doh>>
ipVars == <<latest, ipt, ipb, gen>>
vars == <<now, rl, call, firstReq, batch, cache, doh, latest, ipt, ipb, gen,
          resolver, life>>

Min(a, b) == IF a <= b THEN a ELSE b

\* ------------------------------------------------------------ RateLimiter

\* RateLimiter.__init__ at time t; rate in thousandths of a token per tick
NewRateLimiter(rate, max_tokens, x_ttl, x_rl, t) ==
    [MAX_TOKENS |-> max_tokens * TokenUnit,
     RATE |-> rate,
     tokens |-> max_tokens * TokenUnit,
     updated_at |-> t,
     x_ttl |-> x_ttl,
     x_updated_at |-> t,
     X_RL |-> x_rl,
     x_rl |-> x_rl]

\* RateLimiter.add_new_tokens
AddNewTokens_NoCap(r, t) ==
    LET time_since_update == t - r.updated_at
        new_tokens == time_since_update * r.RATE
    IN  IF r.tokens + new_tokens >= TokenUnit
        THEN [r EXCEPT !.tokens = r.tokens + new_tokens, !.updated_at = t]
        ELSE r

AddNewTokens_Never(r, t) == r

AddNewTokens(r, t) ==
    LET time_since_update == t - r.updated_at
        new_tokens == time_since_update * r.RATE
    IN  IF r.tokens + new_tokens >= TokenUnit
        THEN [r EXCEPT !.tokens = Min(r.tokens + new_tokens, r.MAX_TOKENS),
                       !.updated_at = t]
        ELSE r

\* The position of a task that is not inside the limiter
NoCall ==
    [pc |-> "none", verb |-> "get", client |-> 0, wake |-> 0, tsu |-> 0,
     reqAt |-> 0, slept |-> FALSE, gotToken |-> FALSE, passedTtl |-> FALSE,
     waited |-> 0, base |-> 0, blocked |-> FALSE, window |-> 0, burst |-> FALSE]

\* wait_for_ttl once the window is judged elapsed (or was never closed):
\* lines 85-87, then the body of get hands the request to the transport
TtlPass(r, cs, t, reset) ==
    [lim |-> [r EXCEPT !.x_rl = (IF reset THEN r.X_RL ELSE @) - 1,
                       !.x_updated_at = t],
     cs |-> [cs EXCEPT !.pc = "inflight", !.passedTtl = TRUE]]

\* wait_for_ttl from its first line to its first suspension or its end
WaitForTtlEnter(r, cs, t) ==
    LET time_since_update == t - r.x_updated_at
    IN  IF r.x_rl < 1
        THEN IF time_since_update < r.x_ttl
             THEN [lim |-> r,
                   cs |-> [cs EXCEPT !.pc = "ttlSleep", !.wake = t + TtlSleep,
                                     !.tsu = time_since_update]]
             ELSE TtlPass(r, cs, t, TRUE)
        ELSE TtlPass(r, cs, t, FALSE)

\* wait_for_ttl resumed after asyncio.sleep(0.5): line 84 adds the clock
\* itself to time_since_update, then the loop test is taken again
WaitForTtlResume(r, cs, t) ==
    LET time_since_update == cs.tsu + t
    IN  IF time_since_update < r.x_ttl
        THEN [lim |-> r,
              cs |-> [cs EXCEPT !.pc = "ttlSleep", !.wake = t + TtlSleep,
                                !.tsu = time_since_update]]
        ELSE TtlPass(r, [cs EXCEPT !.tsu = time_since_update], t, TRUE)

\* get/post/put after wait_for_token returned: only get waits for the quota
AfterToken(r, cs, t) ==
    IF cs.verb = "get"
    THEN WaitForTtlEnter(r, cs, t)
    ELSE [lim |-> r, cs |-> [cs EXCEPT !.pc = "inflight"]]

\* wait_for_token from its loop test to its next suspension or its end,
\* continued into the rest of get/post/put (no suspension in between)
WaitForToken(r, cs, t) ==
    IF r.tokens < TokenUnit
    THEN [lim |-> AddNewTokens(r, t),
          cs |-> [cs EXCEPT !.pc = "tokenSleep", !.wake = t + TokenSleep,
                            !.slept = TRUE]]
    ELSE AfterToken([r EXCEPT !.tokens = @ - TokenUnit],
                    [cs EXCEPT !.gotToken = TRUE], t)

\* RateLimiter.get / post / put called on client c at time t
ClientCall(r, c, verb, t) ==
    WaitForToken(r, [NoCall EXCEPT !.verb = verb, !.client = c, !.reqAt = t], t)

\* A task asleep in the limiter whose timer is due runs up to its next
\* suspension
Resume(r, cs, t) ==
    IF cs.pc = "tokenSleep" THEN WaitForToken(r, cs, t)
    ELSE WaitForTtlResume(r, cs, t)

Asleep(cs) == cs.pc \in {"tokenSleep", "ttlSleep"}

\* ------------------------------------------------------------ IPResolver
\* IPResolver.__init__: {"X-Ttl": "0", "X-Rl": "15"}.  A headers mapping is
\* None, or holds the integers its X-Rl and X-Ttl entries stand for.
Headers(rlv, ttl) == [none |-> FALSE, hasRl |-> TRUE, rl |-> rlv, ttl |-> ttl]
NoQuotaHeaders == [none |-> FALSE, hasRl |-> FALSE, rl |-> 0, ttl |-> 0]
NoHeaders == [none |-> TRUE, hasRl |-> FALSE, rl |-> 0, ttl |-> 0]
SeededHeaders == Headers(15, 0)

GenIdle == [state |-> "idle", lst |-> <<>>, n |-> 1, i |-> 0, out |-> <<>>]
\* obsRl and sentSince are bookkeeping of the observer: the X-Rl of the last
\* header mapping that carried one (the seeded one at first), and the
\* requests handed to the transport since
BatchIdle ==
    [status |-> "idle", target_ips |-> <<>>, output |-> <<>>, calls |-> 0,
     obsRl |-> SeededHeaders.rl, sentSince |-> 0]

\* no IPResolver call has been made
IPUnused ==
    /\ latest = SeededHeaders
    /\ ipt = <<>>
    /\ ipb = BatchIdle
    /\ gen = GenIdle

\* no DNSResolver has been constructed
NoResolver == [made |-> FALSE, doh_name_servers |-> <<>>]

\* mainloop has not been called
NoLife == [status |-> "none", cells |-> <<>>, ntimes |-> 0, gens |-> 0]

\* ------------------------------------------------- SpecRL: the limiter alone
\* RLTasks tasks each make one call (get, post or put) on one shared
\* RateLimiter, at any time after its construction.  Task t is the t-th
\* caller.  A call ends when the request is handed to the transport.

RLVerbs == {"get", "post", "put"}
RLRates == {100}                \* 1 token per second
RLMaxTokens == {1, 2}
RLQuota == {1}                  \* x_rl
RLWindow == {10}                \* x_ttl, 1 s

\* bookkeeping of the observer: how long wait_for_token took, and how long
\* the quota had been exhausted (the time since the x_updated_at found on
\* entry) when a blocked wait_for_ttl returned; locals of a finished
\* coroutine are dropped
Observe(old, r) ==
    LET cs == r.cs
        released == cs.passedTtl /\ old.pc = "ttlSleep"
    IN  [cs EXCEPT
           !.waited = IF cs.gotToken /\ ~old.gotToken /\ cs.burst
                      THEN now - cs.reqAt ELSE @,
           !.reqAt = IF cs.gotToken THEN 0 ELSE @,
           !.base = IF cs.pc = "ttlSleep" /\ old.pc # "ttlSleep"
                    THEN rl[1].x_updated_at
                    ELSE IF released THEN 0 ELSE @,
           !.blocked = IF released THEN TRUE ELSE @,
           !.window = IF released THEN now - old.base ELSE @,
           !.wake = IF Asleep(cs) THEN @ ELSE 0,
           !.tsu = IF cs.pc = "ttlSleep" THEN @ ELSE 0]

InitRL ==
    /\ now = 0
    /\ \E rate \in RLRates, mt \in RLMaxTokens, q \in RLQuota, w \in RLWindow :
          rl = [c \in {1} |-> NewRateLimiter(rate, mt, w, q, 0)]
    /\ call = [t \in 1..RLTasks |-> NoCall]
    /\ firstReq = -1
    /\ batch = <<>> /\ cache = <<>> /\ doh = <<>>
    /\ IPUnused
    /\ resolver = NoResolver
    /\ life = NoLife

RLCall(t, verb) ==
    /\ call[t].pc = "none"
    /\ t > 1 => call[t - 1].pc # "none"
    /\ LET r == ClientCall(rl[1], 1, verb, now)
           first == IF firstReq < 0 THEN now ELSE firstReq
       IN  /\ rl' = [rl EXCEPT ![1] = r.lim]
           /\ call' = [call EXCEPT ![t] =
                  Observe(NoCall, [r EXCEPT !.cs.burst = (now = first)])]
           /\ firstReq' = first
    /\ UNCHANGED <<now, dohVars, ipVars, resolver, life>>

RLWake(t) ==
    /\ Asleep(call[t])
    /\ now >= call[t].wake
    /\ LET r == Resume(rl[1], call[t], now)
       IN  /\ rl' = [rl EXCEPT ![1] = r.lim]
           /\ call' = [call EXCEPT ![t] = Observe(call[t], r)]
    /\ UNCHANGED <<now, firstReq, dohVars, ipVars, resolver, life>>

\* The event loop runs every timer that is due before the clock goes on.
TimerDue == \E t \in DOMAIN call : Asleep(call[t]) /\ call[t].wake <= now

RLTick ==
    /\ now < MaxTimeRL
    /\ ~TimerDue
    /\ now' = now + 1
    /\ UNCHANGED <<rl, call, firstReq, dohVars, ipVars, resolver, life>>

NextRL ==
    \/ \E t \in 1..RLTasks, verb \in RLVerbs : RLCall(t, verb)
    \/ \E t \in 1..RLTasks : RLWake(t)
    \/ RLTick

SpecRL == InitRL /\ [][NextRL]_vars

\* SpecRLCancel: the same tasks on the same limiter, each of which may be
\* cancelled while it is suspended inside its get call.

\* CancelledError is raised at the await where the task is suspended and
\* leaves the coroutine; no statement of the limiter runs
Cancelled_TokenReturned(r, cs) ==
    [lim |-> [r EXCEPT !.tokens = IF cs.gotToken THEN @ + TokenUnit ELSE @],
     cs |-> [cs EXCEPT !.pc = "cancelled", !.wake = 0, !.tsu = 0]]

Cancelled(r, cs) ==
    [lim |-> r, cs |-> [cs EXCEPT !.pc = "cancelled", !.wake = 0, !.tsu = 0]]

\* task.cancel() for a task asleep in wait_for_token or wait_for_ttl; the
\* observer notes how long a task of the burst had been waiting for a token
RLCancel(t) ==
    /\ Asleep(call[t])
    /\ LET r == Cancelled(rl[1], call[t])
       IN  /\ rl' = [rl EXCEPT ![1] = r.lim]
           /\ call' = [call EXCEPT ![t] =
                  [r.cs EXCEPT !.waited = IF r.cs.burst /\ ~r.cs.gotToken
                                          THEN now - r.cs.reqAt ELSE @,
                               !.reqAt = 0, !.base = 0]]
    /\ UNCHANGED <<now, firstReq, dohVars, ipVars, resolver, life>>

NextRLCancel ==
    \/ \E t \in 1..RLTasks : RLCall(t, "get")
    \/ \E t \in 1..RLTasks : RLWake(t)
    \/ \E t \in 1..RLTasks : RLCancel(t)
    \/ RLTick

SpecRLCancel == InitRL /\ [][NextRLCancel]_vars

\* ------------------------------------------------------ claims on SpecRL

\* C6: in every reachable state the bucket holds between 0 and MAX_TOKENS
\* tokens, whatever the interleaving of the tasks in wait_for_token and
\* whatever time elapses between their steps.
C6_TokensInRange ==
    \A c \in DOMAIN rl : rl[c].tokens >= 0 /\ rl[c].tokens <= rl[c].MAX_TOKENS

\* a task slept in wait_for_token, a refill happened, it took its token and
\* a fraction of a token is left in the bucket
C6_Witness ==
    \E t \in DOMAIN call :
        /\ call[t].slept /\ call[t].gotToken
        /\ rl[call[t].client].tokens > 0
        /\ rl[call[t].client].tokens < TokenUnit

\* C7: with max_tokens 2 and rate 1/s, the first two calls of a burst take
\* their token without suspending and every further call of the same burst
\* gets its token no earlier than about one second (here: 0.9 s) later.
C7_BurstThenWait ==
    (rl[1].MAX_TOKENS = 2 * TokenUnit /\ rl[1].RATE * TicksPerSecond = TokenUnit) =>
        \A t \in DOMAIN call : call[t].burst =>
            /\ t <= 2 => call[t].gotToken /\ ~call[t].slept
            /\ (t > 2 /\ call[t].gotToken) => call[t].waited >= TicksPerSecond - 1

\* C8: a caller that the quota gate blocked is released only once the reset
\* window x_ttl has elapsed since the quota was last updated.
C8_BlockedUntilWindowElapsed ==
    \A t \in DOMAIN call :
        call[t].blocked => call[t].window >= rl[call[t].client].x_ttl

\* C10: a call that has reached the transport has completed both the token
\* acquisition and the quota wait.
C10_BothGatesBeforeTransport ==
    \A t \in DOMAIN call :
        call[t].pc = "inflight" => call[t].gotToken /\ call[t].passedTtl

\* C21: in every interval that starts with the first call on the limiter,
\* the calls made at its start that have completed wait_for_token within T
\* are at most capacity + rate * T, also when the limiter had been idle
\* before that first call.
C21_RateBound ==
    \A T \in 0..MaxTimeRL :
        Cardinality({t \in DOMAIN call :
                        call[t].burst /\ call[t].gotToken /\ call[t].waited <= T})
          * TokenUnit <= rl[1].MAX_TOKENS + rl[1].RATE * T

\* task t is cancelled in this step
IsCancelled(t) == call[t].pc # "cancelled" /\ call'[t].pc = "cancelled"

\* task t, not cancelled, runs in this step from its sleep in wait_for_token
WakesInWaitForToken(t) ==
    /\ call[t].pc = "tokenSleep"
    /\ call'[t] # call[t]
    /\ call'[t].pc # "cancelled"

\* C18: cancelling a task leaves the bucket as it was and within
\* [0, MAX_TOKENS]: a task cancelled in wait_for_token has taken no token, a
\* token taken before the cancellation is not put back, and every waiter
\* that is still there takes its token the first time it wakes to a bucket
\* that holds one.
C18_CancellationKeepsBucket ==
    [][/\ rl'[1].tokens >= 0 /\ rl'[1].tokens <= rl'[1].MAX_TOKENS
       /\ \A t \in DOMAIN call :
             /\ IsCancelled(t) =>
                   /\ rl' = rl
                   /\ call[t].pc = "tokenSleep" => ~call'[t].gotToken
             /\ call[t].pc = "cancelled" => call'[t] = call[t]
             /\ (WakesInWaitForToken(t) /\ rl[1].tokens >= TokenUnit) =>
                   /\ call'[t].gotToken
                   /\ rl'[1].tokens = rl[1].tokens - TokenUnit]_vars

\* two tasks asked together and had to wait: one was cancelled in
\* wait_for_token, the other got its token later than that and was then
\* cancelled in wait_for_ttl, and the bucket has not got the token back
C18_Witness ==
    \E t, u \in DOMAIN call :
        /\ call[t].pc = "cancelled" /\ ~call[t].gotToken /\ call[t].burst
        /\ call[u].pc = "cancelled" /\ call[u].gotToken
        /\ call[u].burst /\ call[u].slept
        /\ call[u].waited > call[t].waited
        /\ rl[1].tokens < TokenUnit

\* ------------------------------------------------ SpecDoh: DNS over HTTPS
Domains == {"a", "b"}
RecordTypes == {"A"}
DohMaxTokens == {1, 2}

SeqsUpTo(S, n) == UNION {[1..k -> S] : k \in 0..n}

\* a Python value that is either None or a list
Absent == [absent |-> TRUE, data |-> <<>>]
Some(l) == [absent |-> FALSE, data |-> l]

DohTaskIds == (1..MaxBatches) \X Domains

\* DNSResolver.__init__(dns_name_servers, doh_name_servers): the list is
\* kept as given, None becomes the empty list; endpoint i of the list is i
NewDNSResolver(doh_name_servers) ==
    [made |-> TRUE,
     doh_name_servers |-> IF doh_name_servers.absent THEN <<>>
                          ELSE doh_name_servers.data]

EndpointList(n) == [i \in 1..n |-> i]

NoTask ==
    [pc |-> "none", domain |-> "", dns_type |-> "", retry |-> FALSE,
     client |-> 0, ep |-> 0, contacted |-> <<>>, resp |-> <<>>, ret |-> Absent]

\* ---- the transport: what endpoint e may answer for (name, type)
AnswerData(e, d, ty) == <<e, d, ty>>

Reply(kind, status, json, Status, hasAnswer, Answer) ==
    [kind |-> kind, status |-> status, json |-> json, Status |-> Status,
     hasAnswer |-> hasAnswer, Answer |-> Answer]

DohResponses(e, d, ty) ==
    { Reply("exc", 0, FALSE, 0, FALSE, <<>>),         \* connection error
      Reply("http", 429, FALSE, 0, FALSE, <<>>),      \* not 200
      Reply("http", 200, FALSE, 0, FALSE, <<>>),      \* body is not JSON
      Reply("http", 200, TRUE, 0, TRUE, <<[data |-> AnswerData(e, d, ty)]>>),
      Reply("http", 200, TRUE, 0, FALSE, <<>>),       \* Status 0, no Answer
      Reply("http", 200, TRUE, 2, FALSE, <<>>),       \* SERVFAIL
      Reply("http", 200, TRUE, 3, FALSE, <<>>) }      \* NXDOMAIN

\* what a reply amounts to for the caller of the endpoint
Class(r) ==
    IF r.kind = "exc" \/ r.status # 200 \/ ~r.json THEN "fail"
    ELSE IF r.Status = 0 THEN (IF r.hasAnswer THEN "ok" ELSE "fail")
    ELSE IF r.Status \in DNS_RETRY_CODES THEN "retry"
    ELSE "fatal"

\* ---- query_doh_json
\* the for loop ran out of endpoints (or was left by break): the coroutine
\* ends without a return statement
Exhausted_EmptyList == Some(<<>>)

Exhausted == Absent

\* the body of the for loop once the transport has produced reply r
HandleResponse_AnswerIgnored(r, retry_if_fail) ==
    IF r.kind = "exc" \/ r.status # 200 THEN [next |-> "continue", val |-> Absent]
    ELSE IF ~retry_if_fail THEN [next |-> "break", val |-> Absent]
    ELSE IF ~r.json \/ r.Status = 0 \/ r.Status \in DNS_RETRY_CODES
         THEN [next |-> "continue", val |-> Absent]
    ELSE [next |-> "return", val |-> Absent]

HandleResponse(r, retry_if_fail) ==
    IF r.kind = "exc" THEN [next |-> "continue", val |-> Absent]
    ELSE IF r.status # 200 THEN [next |-> "continue", val |-> Absent]
    ELSE IF ~retry_if_fail THEN [next |-> "break", val |-> Absent]
    ELSE IF ~r.json THEN [next |-> "continue", val |-> Absent]
    ELSE IF r.Status = 0
         THEN IF r.hasAnswer
              THEN [next |-> "return",
                    val |-> Some([i \in 1..Len(r.Answer) |-> r.Answer[i].data])]
              ELSE [next |-> "continue", val |-> Absent]
    ELSE IF r.Status \in DNS_RETRY_CODES /\ retry_if_fail
         THEN [next |-> "continue", val |-> Absent]
    ELSE [next |-> "return", val |-> Absent]

\* the coroutine ends with value v
Finish(d, v) == [d EXCEPT !.pc = "done", !.ret = v]

\* the request of the current endpoint is noted once it is with the transport
NoteSent(d, cs) ==
    IF cs.pc = "inflight" THEN [d EXCEPT !.contacted = Append(@, d.ep)] ELSE d

\* the for loop takes its next endpoint and calls client.get, or ends
TryNext(t, d) ==
    IF d.ep < Len(resolver.doh_name_servers)
    THEN LET c == d.client
             r == ClientCall(rl[c], c, "get", now)
         IN  /\ rl' = [rl EXCEPT ![c] = r.lim]
             /\ call' = [call EXCEPT ![t] = r.cs]
             /\ doh' = [doh EXCEPT ![t] =
                    NoteSent([d EXCEPT !.pc = "running", !.ep = d.ep + 1], r.cs)]
    ELSE /\ doh' = [doh EXCEPT ![t] = Finish(d, Exhausted)]
         /\ call' = [call EXCEPT ![t] = NoCall]
         /\ UNCHANGED rl

\* ---- alru_cache(maxsize=CACHE_SIZE) around query_doh_json
\* the key is made of every argument of the call, the client included
CacheKey(domain, dns_type, client, retry_if_fail) ==
    [domain |-> domain, dns_type |-> dns_type, client |-> client,
     retry |-> retry_if_fail]

CacheIndex(c, key) ==
    IF \E i \in 1..Len(c) : c[i].key = key
    THEN CHOOSE i \in 1..Len(c) : c[i].key = key
    ELSE 0

MoveToEnd(c, i) ==
    [j \in 1..Len(c) |-> IF j < i THEN c[j]
                         ELSE IF j < Len(c) THEN c[j + 1] ELSE c[i]]

CacheInsert(c, key, t) ==
    LET c1 == Append(c, [key |-> key, task |-> t])
    IN  IF Len(c1) > CACHE_SIZE THEN Tail(c1) ELSE c1

\* the wrapper called for one key of batch b: a hit awaits the future that
\* is in the cache, a miss creates the task and stores its future
RECURSIVE Schedule(_, _, _, _, _, _)
Schedule(keys, i, b, ty, retry, acc) ==
    IF i > Len(keys) THEN acc
    ELSE LET key == CacheKey(keys[i], ty, b, retry)
             idx == CacheIndex(acc.cache, key)
             t == <<b, keys[i]>>
         IN  IF idx > 0
             THEN Schedule(keys, i + 1, b, ty, retry,
                      [acc EXCEPT !.cache = MoveToEnd(@, idx),
                                  !.futs = Append(@, acc.cache[idx].task)])
             ELSE Schedule(keys, i + 1, b, ty, retry,
                      [cache |-> CacheInsert(acc.cache, key, t),
                       futs |-> Append(acc.futs, t),
                       doh |-> [acc.doh EXCEPT ![t] =
                                  [NoTask EXCEPT !.pc = "start", !.domain = keys[i],
                                                 !.dns_type = ty, !.retry = retry,
                                                 !.client = b]]])

\* asyncio.gather: the results of the awaited futures, in argument order
Gather_Reversed(futs, d) == [i \in 1..Len(futs) |-> d[futs[Len(futs) + 1 - i]].ret]

Gather(futs, d) == [i \in 1..Len(futs) |-> d[futs[i]].ret]

\* the frames of the coroutines of a call that has returned are gone; the
\* results stay in the futures held by the cache
Forget(d) ==
    [t \in DOMAIN d |-> IF d[t].pc = "done"
                        THEN [d[t] EXCEPT !.contacted = <<>>, !.resp = <<>>]
                        ELSE d[t]]

InitDoh ==
    /\ now = 0
    /\ rl = <<>>
    /\ call = [t \in DohTaskIds |-> NoCall]
    /\ firstReq = -1
    /\ batch = <<>>
    /\ cache = <<>>
    /\ doh = [t \in DohTaskIds |-> NoTask]
    /\ IPUnused
    /\ resolver = NewDNSResolver(Some(EndpointList(NumEndpoints)))
    /\ life = NoLife

\* mass_query_doh_json(target_domains, dns_type, rate=20, max_tokens,
\* retry_if_fail) up to its await
MassQueryDoh(keys, ty, max_tokens, retry) ==
    /\ resolver.made
    /\ Len(batch) < MaxBatches
    /\ \A b \in DOMAIN batch : batch[b].status = "returned"
    /\ LET b == Len(batch) + 1
           s == Schedule(keys, 1, b, ty, retry,
                         [cache |-> cache, futs |-> <<>>, doh |-> Forget(doh)])
       IN  /\ rl' = Append(rl, NewRateLimiter(DefaultRate, max_tokens,
                                              DefaultXTtl, DefaultXRl, now))
           /\ cache' = s.cache
           /\ doh' = s.doh
           /\ batch' = Append([i \in DOMAIN batch |-> [batch[i] EXCEPT !.order = <<>>]],
                              [keys |-> keys, dns_type |-> ty, retry |-> retry,
                               futs |-> s.futs, status |-> "running",
                               result |-> <<>>, order |-> <<>>])
    /\ UNCHANGED <<now, call, firstReq, ipVars, resolver, life>>

NoteDone(t) ==
    IF doh'[t].pc = "done"
    THEN [batch EXCEPT ![t[1]].order = Append(@, t[2])]
    ELSE batch

\* a new task runs query_doh_json up to its first suspension
DohStart(t) ==
    /\ doh[t].pc = "start"
    /\ TryNext(t, doh[t])
    /\ batch' = NoteDone(t)
    /\ UNCHANGED <<now, firstReq, cache, ipVars, resolver, life>>

\* a task asleep in the limiter goes on when its timer is due
DohWake(t) ==
    /\ doh[t].pc = "running"
    /\ Asleep(call[t])
    /\ now >= call[t].wake
    /\ LET c == doh[t].client
           r == Resume(rl[c], call[t], now)
       IN  /\ rl' = [rl EXCEPT ![c] = r.lim]
           /\ call' = [call EXCEPT ![t] = r.cs]
           /\ doh' = [doh EXCEPT ![t] = NoteSent(@, r.cs)]
    /\ UNCHANGED <<now, firstReq, batch, cache, ipVars, resolver, life>>

\* the transport answers the request of task t with reply r
DohRespond(t, r) ==
    /\ doh[t].pc = "running"
    /\ call[t].pc = "inflight"
    /\ LET d == [doh[t] EXCEPT !.resp = Append(@, Class(r))]
           h == HandleResponse(r, d.retry)
       IN  CASE h.next = "return" ->
                  /\ doh' = [doh EXCEPT ![t] = Finish(d, h.val)]
                  /\ call' = [call EXCEPT ![t] = NoCall]
                  /\ UNCHANGED rl
             [] h.next = "break" ->
                  /\ doh' = [doh EXCEPT ![t] = Finish(d, Exhausted)]
                  /\ call' = [call EXCEPT ![t] = NoCall]
                  /\ UNCHANGED rl
             [] h.next = "continue" -> TryNext(t, d)
    /\ batch' = NoteDone(t)
    /\ UNCHANGED <<now, firstReq, cache, ipVars, resolver, life>>

\* every awaited future is done: mass_query_doh_json returns
DohReturn(b) ==
    /\ batch[b].status = "running"
    /\ \A i \in 1..Len(batch[b].futs) : doh[batch[b].futs[i]].pc = "done"
    /\ batch' = [batch EXCEPT ![b].status = "returned",
                              ![b].result = Gather(batch[b].futs, doh)]
    /\ UNCHANGED <<now, rl, call, firstReq, cache, doh, ipVars, resolver, life>>

\* a coroutine that can run does so before the clock goes on
DohRunnable ==
    \/ \E t \in DohTaskIds : doh[t].pc = "start"
    \/ \E b \in DOMAIN batch : ENABLED DohReturn(b)

DohTick ==
    /\ now < MaxTimeDoh
    /\ ~TimerDue
    /\ ~DohRunnable
    /\ now' = now + 1
    /\ UNCHANGED <<rl, call, firstReq, dohVars, ipVars, resolver, life>>

\* SpecDoh: one call of mass_query_doh_json with up to MaxKeys keys
NextDoh ==
    \/ \E keys \in SeqsUpTo(Domains, MaxKeys), ty \in RecordTypes,
          mt \in DohMaxTokens, retry \in BOOLEAN :
             batch = <<>> /\ MassQueryDoh(keys, ty, mt, retry)
    \/ \E t \in DohTaskIds : DohStart(t)
    \/ \E t \in DohTaskIds : DohWake(t)
    \/ \E t \in DohTaskIds :
          \E r \in DohResponses(doh[t].ep, doh[t].domain, doh[t].dns_type) :
             DohRespond(t, r)
    \/ \E b \in 1..MaxBatches : b \in DOMAIN batch /\ DohReturn(b)
    \/ DohTick

SpecDoh == InitDoh /\ [][NextDoh]_vars

\* SpecDohRepeat: up to MaxBatches successive calls on one resolver, each
\* for a single key
NextDohRepeat ==
    \/ \E d \in Domains, ty \in RecordTypes, mt \in DohMaxTokens, retry \in BOOLEAN :
          MassQueryDoh(<<d>>, ty, mt, retry)
    \/ \E t \in DohTaskIds : DohStart(t)
    \/ \E t \in DohTaskIds : DohWake(t)
    \/ \E t \in DohTaskIds :
          \E r \in DohResponses(doh[t].ep, doh[t].domain, doh[t].dns_type) :
             DohRespond(t, r)
    \/ \E b \in 1..MaxBatches : b \in DOMAIN batch /\ DohReturn(b)
    \/ DohTick

SpecDohRepeat == InitDoh /\ [][NextDohRepeat]_vars

\* SpecDohLive: one call of mass_query_doh_json under fair scheduling.  The
\* event loop runs every task that is ready, every timer fires when it is
\* due, and the transport answers or fails every request.  A request may
\* stay unanswered while the clock goes on up to MaxTimeDoh; from then on
\* the clock goes on only when no request is with the transport, that is
\* when every unfinished task is asleep.
DohTickLive ==
    /\ now < MaxTimeLive
    /\ now < MaxTimeDoh \/ \A t \in DohTaskIds : call[t].pc # "inflight"
    /\ ~TimerDue
    /\ ~DohRunnable
    /\ \E t \in DohTaskIds : doh[t].pc = "running"
    /\ now' = now + 1
    /\ UNCHANGED <<rl, call, firstReq, dohVars, ipVars, resolver, life>>

\* the transport fails (connection error) or responds (an answer); between
\* them the two make the loop body continue, return and break
LiveResponses(e, d, ty) ==
    {r \in DohResponses(e, d, ty) : r.kind = "exc" \/ Class(r) = "ok"}

\* the steps of the event loop, the transport and the clock
DohRuns ==
    \/ \E t \in DohTaskIds : DohStart(t)
    \/ \E t \in DohTaskIds : DohWake(t)
    \/ \E t \in DohTaskIds :
          \E r \in LiveResponses(doh[t].ep, doh[t].domain, doh[t].dns_type) :
             DohRespond(t, r)
    \/ \E b \in 1..MaxBatches : b \in DOMAIN batch /\ DohReturn(b)
    \/ DohTickLive

NextDohLive ==
    \/ \E keys \in SeqsUpTo(Domains, MaxKeys), ty \in RecordTypes,
          mt \in DohMaxTokens, retry \in BOOLEAN :
             batch = <<>> /\ MassQueryDoh(keys, ty, mt, retry)
    \/ DohRuns

\* as long as a task can run, a timer is due, a request is with the
\* transport or the clock can go on, one of these steps is taken
FairDoh == WF_vars(DohRuns)

SpecDohLive == InitDoh /\ [][NextDohLive]_vars /\ FairDoh

\* SpecDohNew: the resolver is constructed first, with any endpoint list,
\* and then used for one call of mass_query_doh_json
InitDohNew ==
    /\ now = 0
    /\ rl = <<>>
    /\ call = [t \in DohTaskIds |-> NoCall]
    /\ firstReq = -1
    /\ batch = <<>>
    /\ cache = <<>>
    /\ doh = [t \in DohTaskIds |-> NoTask]
    /\ IPUnused
    /\ resolver = NoResolver
    /\ life = NoLife

\* resolver = DNSResolver(dns_name_servers, doh_name_servers)
DNSResolverInit(doh_name_servers) ==
    /\ ~resolver.made
    /\ resolver' = NewDNSResolver(doh_name_servers)
    /\ UNCHANGED <<now, rl, call, firstReq, dohVars, ipVars, life>>

EndpointLists == {Absent} \cup {Some(EndpointList(n)) : n \in 0..NumEndpoints}

NextDohNew ==
    \/ \E l \in EndpointLists : DNSResolverInit(l)
    \/ \E keys \in SeqsUpTo(Domains, MaxKeys), ty \in RecordTypes,
          mt \in DohMaxTokens, retry \in BOOLEAN :
             batch = <<>> /\ MassQueryDoh(keys, ty, mt, retry)
    \/ \E t \in DohTaskIds : DohStart(t)
    \/ \E t \in DohTaskIds : DohWake(t)
    \/ \E t \in DohTaskIds :
          \E r \in DohResponses(doh[t].ep, doh[t].domain, doh[t].dns_type) :
             DohRespond(t, r)
    \/ \E b \in 1..MaxBatches : b \in DOMAIN batch /\ DohReturn(b)
    \/ DohTick

SpecDohNew == InitDohNew /\ [][NextDohNew]_vars

\* ------------------------------------- claims on SpecDoh and SpecDohRepeat

Returned(b) == b \in DOMAIN batch /\ batch[b].status = "returned"

\* no endpoint gave task t a usable reply, and all of them were tried
AllFailed(t) ==
    /\ doh[t].pc = "done"
    /\ Len(doh[t].resp) = NumEndpoints
    /\ \A i \in 1..NumEndpoints : doh[t].resp[i] \in {"fail", "retry"}

\* C1: a returned batch has one result per input key, and result i is the
\* outcome of the lookup of key i: the value its task ended with, which is
\* either None or the answer some endpoint gave for that very key.
C1_ResultsInInputOrder ==
    \A b \in DOMAIN batch : Returned(b) =>
        /\ Len(batch[b].result) = Len(batch[b].keys)
        /\ \A i \in 1..Len(batch[b].keys) :
              LET t == <<b, batch[b].keys[i]>>
                  res == batch[b].result[i]
              IN  /\ doh[t].pc = "done"
                  /\ res = doh[t].ret
                  /\ ~res.absent =>
                        \E e \in 1..NumEndpoints :
                           res.data = <<AnswerData(e, batch[b].keys[i],
                                                   batch[b].dns_type)>>

\* two different keys, the second finished first, one failed and one answered
C1_Witness ==
    \E b \in DOMAIN batch :
        /\ Returned(b)
        /\ Len(batch[b].keys) = 2
        /\ batch[b].keys[1] # batch[b].keys[2]
        /\ batch[b].order = <<batch[b].keys[2], batch[b].keys[1]>>
        /\ batch[b].result[1].absent
        /\ ~batch[b].result[2].absent

C4_FailoverOrder ==
    \A t \in DohTaskIds : doh[t].retry =>
        /\ doh[t].contacted = [i \in 1..Len(doh[t].contacted) |-> i]
        /\ (Len(doh[t].resp) >= 2 /\ doh[t].resp[1] = "retry"
                                  /\ doh[t].resp[2] = "ok") =>
              /\ doh[t].pc = "done"
              /\ doh[t].ret = Some(<<AnswerData(2, doh[t].domain, doh[t].dns_type)>>)
              /\ doh[t].contacted = <<1, 2>>

C4_Witness ==
    \E t \in DohTaskIds :
        /\ doh[t].retry
        /\ doh[t].resp = <<"retry", "ok">>
        /\ doh[t].pc = "done"

\* a lookup of (d, ty) has ended with an answer on this resolver
Succeeded(d, ty) ==
    \E t \in DohTaskIds :
        /\ doh[t].pc = "done" /\ ~doh[t].ret.absent
        /\ doh[t].domain = d /\ doh[t].dns_type = ty

\* C5: once a lookup of (key, recordType) has succeeded, no later step sends
\* a request for that (key, recordType) to an endpoint.
C5_NoCallAfterSuccess ==
    [][\A d \in Domains, ty \in RecordTypes : Succeeded(d, ty) =>
          \A t \in DohTaskIds :
             (doh'[t].domain = d /\ doh'[t].dns_type = ty) =>
                Len(doh'[t].contacted) <= Len(doh[t].contacted)]_vars

\* C11: a resolver that exists has at least one endpoint, so no lookup is
\* ever started on a resolver whose endpoint list is empty.
C11_NoResolverWithoutEndpoints ==
    (resolver.made \/ batch # <<>>) => resolver.doh_name_servers # <<>>

\* C12: the lookups of every batch call made on one resolver draw from one
\* token bucket and quota state: a resolver never has a second limiter, and
\* the tasks of all its batches hold the same client.
C12_OneBucketPerResolver ==
    /\ Len(rl) <= 1
    /\ \A t, u \in DohTaskIds :
          (doh[t].pc # "none" /\ doh[u].pc # "none") => doh[t].client = doh[u].client

\* C14: a lookup whose latest reply was HTTP 200 with Status 0 and an answer
\* list has ended with that reply's answer data, with retry_if_fail true or
\* false.
C14_SuccessReturnsAnswer ==
    \A t \in DohTaskIds :
        LET n == Len(doh[t].resp)
        IN  (n > 0 /\ doh[t].resp[n] = "ok") =>
               /\ doh[t].pc = "done"
               /\ doh[t].ret = Some(<<AnswerData(n, doh[t].domain, doh[t].dns_type)>>)

\* task t takes a token from its bucket in this step
TakesToken(t) ==
    /\ call'[t].gotToken
    /\ ~call[t].gotToken \/ doh'[t].ep # doh[t].ep

\* C16: a lookup takes a token only on its way to its first endpoint: the
\* tokens it consumes are 1 however many endpoints it goes on to try.
C16_OneTokenPerLookup ==
    [][\A t \in DohTaskIds : TakesToken(t) => doh'[t].ep = 1]_vars

\* a lookup of (d, ty) has ended with None on this resolver
ResolvedAbsent(d, ty) ==
    \E t \in DohTaskIds :
        /\ doh[t].pc = "done" /\ doh[t].ret.absent
        /\ doh[t].domain = d /\ doh[t].dns_type = ty

\* C19: the outcome None is kept under (key, recordType) as well: once a
\* lookup of (key, recordType) has ended with None, no later step sends a
\* request for that (key, recordType) to an endpoint.
C19_AbsentIsCached ==
    [][\A d \in Domains, ty \in RecordTypes : ResolvedAbsent(d, ty) =>
          \A t \in DohTaskIds :
             (doh'[t].domain = d /\ doh'[t].dns_type = ty) =>
                Len(doh'[t].contacted) <= Len(doh[t].contacted)]_vars

\* C23: for a finite key list, a positive rate (and a bucket that can hold
\* a token) and a transport that answers or fails every request, every task
\* that is waiting in wait_for_token gets its token in the end, and a call
\* of mass_query_doh_json returns in the end.
C23_EveryWaiterServedAndBatchReturns ==
    /\ \A t \in DohTaskIds : (call[t].pc = "tokenSleep") ~> call[t].gotToken
    /\ (batch # <<>>) ~> (batch # <<>> /\ batch[1].status = "returned")

\* a call for two keys has returned after its tasks had to wait for tokens
\* longer than any response was outstanding
C23_Witness ==
    /\ batch # <<>>
    /\ batch[1].status = "returned"
    /\ Len(batch[1].keys) = 2
    /\ batch[1].keys[1] # batch[1].keys[2]
    /\ now > MaxTimeDoh + 1

\* -------------------------------------------------- SpecIP: IP batch lookup
IpLengths == {0, 1, ChunkSize, ChunkSize + 1, MaxIps}
IpLists == {[i \in 1..n |-> i] : n \in IpLengths}

\* range(start, stop, step) for start <= stop, step > 0
Range(start, stop, step) ==
    [k \in 1..((stop - start + step - 1) \div step) |-> start + (k - 1) * step]

\* lst[i:j] for 0 <= i <= j
Slice_OffByOne(lst, i, j) == SubSeq(lst, i + 1, Min(j, Len(lst)) - 1)

Slice(lst, i, j) == SubSeq(lst, i + 1, Min(j, Len(lst)))

\* IPResolver.chunks, run to exhaustion
Chunks(lst, n) ==
    LET r == Range(0, Len(lst), n)
    IN  [k \in 1..Len(r) |-> Slice(lst, r[k], r[k] + n)]

\* itertools.chain(*lists)
RECURSIVE Chain(_)
Chain(lists) == IF lists = <<>> THEN <<>> ELSE Head(lists) \o Chain(Tail(lists))

\* ---- the transport: ip-api answers a chunk entry by entry, in order
Body(chunk) == [i \in 1..Len(chunk) |-> [query |-> chunk[i], countryCode |-> "ZZ"]]

IpReply(kind, status, headers, hint) ==
    [kind |-> kind, status |-> status, headers |-> headers, hint |-> hint]

IpResponses ==
    { IpReply("exc", 0, NoHeaders, 0),
      IpReply("http", 200, Headers(14, 2), 0),
      IpReply("http", 200, Headers(1, 2), 0),
      IpReply("http", 200, Headers(0, 2), 0),        \* the quota is used up
      IpReply("http", 200, NoQuotaHeaders, 0),
      IpReply("http", 429, Headers(0, 0), 0),        \* X-Ttl: 0
      IpReply("http", 429, NoQuotaHeaders, 1),       \* no hint: 1 second
      IpReply("http", 500, NoQuotaHeaders, 0) }

NoIpTask == [pc |-> "none", chunk |-> <<>>, wake |-> 0, ret |-> <<>>]

\* an exception leaves query_json
Raise(tk) == [tk EXCEPT !.pc = "raised", !.wake = 0]

\* query_json, lines 59-64: the quota loop, then query_http up to the await
\* of client.post
Gate(t) ==
    IF latest.none \/ ~latest.hasRl
    THEN /\ ipt' = [ipt EXCEPT ![t] = Raise(@)]
         /\ UNCHANGED <<rl, call>>
    ELSE IF latest.rl < 2
    THEN /\ ipt' = [ipt EXCEPT ![t].pc = "gateSleep",
                               ![t].wake = now + (latest.ttl \div 2) * TicksPerSecond]
         /\ UNCHANGED <<rl, call>>
    ELSE LET r == ClientCall(rl[1], 1, "post", now)
         IN  /\ rl' = [rl EXCEPT ![1] = r.lim]
             /\ call' = [call EXCEPT ![t] = r.cs]
             /\ ipt' = [ipt EXCEPT ![t].pc = "http", ![t].wake = 0]

\* query_json, lines 64-67, once query_http has returned: (None, None) comes
\* back as text None, on which json.loads raises
AfterHttp(t, ok, headers) ==
    /\ latest' = headers
    /\ call' = [call EXCEPT ![t] = NoCall]
    /\ ipt' = [ipt EXCEPT ![t] =
          IF ok THEN [ipt[t] EXCEPT !.pc = "done", !.wake = 0,
                                    !.ret = Body(ipt[t].chunk)]
          ELSE Raise(ipt[t])]

\* the observer counts the request of task t when this step hands it to
\* the transport
CountSent(t) ==
    IF call'[t].pc = "inflight" /\ call[t].pc # "inflight"
    THEN [ipb EXCEPT !.sentSince = @ + 1]
    ELSE ipb

\* the observer notes the quota that the headers of a response carry
NoteQuota(r) ==
    IF r.kind = "http" /\ r.status = 200 /\ r.headers.hasRl
    THEN [ipb EXCEPT !.obsRl = r.headers.rl, !.sentSince = 0]
    ELSE ipb

InitIP ==
    /\ now = 0
    /\ rl = <<>>
    /\ call = <<>>
    /\ firstReq = -1
    /\ batch = <<>> /\ cache = <<>> /\ doh = <<>>
    /\ IPUnused
    /\ resolver = NoResolver
    /\ life = NoLife

\* mass_query_json_ip_api(target_ips) up to its await
MassQueryIP(ips) ==
    /\ ipb.status \in {"idle", "returned"}
    /\ ipb.calls < MaxIpCalls
    /\ gen.state = "idle"
    /\ LET cs == Chunks(ips, ChunkSize)
       IN  /\ rl' = <<NewRateLimiter(IpRate, IpMaxTokens, DefaultXTtl, DefaultXRl, now)>>
           /\ call' = [t \in 1..Len(cs) |-> NoCall]
           /\ ipt' = [t \in 1..Len(cs) |-> [NoIpTask EXCEPT !.pc = "start",
                                                             !.chunk = cs[t]]]
           /\ ipb' = [ipb EXCEPT !.status = "running", !.target_ips = ips,
                                  !.output = <<>>, !.calls = @ + 1]
    /\ UNCHANGED <<now, firstReq, dohVars, latest, gen, resolver, life>>

\* a new task runs query_json up to its first suspension
IpStart(t) ==
    /\ ipt[t].pc = "start"
    /\ Gate(t)
    /\ ipb' = CountSent(t)
    /\ UNCHANGED <<now, firstReq, dohVars, latest, gen, resolver, life>>

\* a sleeping task goes on when its timer is due
IpWake(t) ==
    /\ CASE ipt[t].pc = "gateSleep" ->
              /\ now >= ipt[t].wake
              /\ Gate(t)
              /\ UNCHANGED latest
         [] ipt[t].pc = "sleep429" ->
              /\ now >= ipt[t].wake
              /\ AfterHttp(t, FALSE, NoHeaders)
              /\ UNCHANGED rl
         [] ipt[t].pc = "http" /\ Asleep(call[t]) ->
              /\ now >= call[t].wake
              /\ LET r == Resume(rl[1], call[t], now)
                 IN  /\ rl' = [rl EXCEPT ![1] = r.lim]
                     /\ call' = [call EXCEPT ![t] = r.cs]
              /\ UNCHANGED <<latest, ipt>>
         [] OTHER -> FALSE
    /\ ipb' = CountSent(t)
    /\ UNCHANGED <<now, firstReq, dohVars, gen, resolver, life>>

\* the transport answers the request of task t: query_http, lines 48-56
IpRespond(t, r) ==
    /\ ipt[t].pc = "http"
    /\ call[t].pc = "inflight"
    /\ IF r.kind = "http" /\ r.status = 200
       THEN AfterHttp(t, TRUE, r.headers)
       ELSE IF r.kind = "http" /\ r.status = 429
       THEN /\ ipt' = [ipt EXCEPT ![t].pc = "sleep429",
                                  ![t].wake = now + r.hint * TicksPerSecond]
            /\ call' = [call EXCEPT ![t] = NoCall]
            /\ UNCHANGED latest
       ELSE AfterHttp(t, FALSE, NoHeaders)
    /\ ipb' = NoteQuota(r)
    /\ UNCHANGED <<now, rl, firstReq, dohVars, gen, resolver, life>>

IpTasks == DOMAIN ipt

\* asyncio.gather ends: with the first exception of a task, or with every
\* result, which line 75 flattens into (query, countryCode) pairs
Output(tasks) ==
    LET flat == Chain([t \in DOMAIN tasks |-> tasks[t].ret])
    IN  [i \in 1..Len(flat) |-> <<flat[i].query, flat[i].countryCode>>]

IpGatherEnds ==
    /\ ipb.status = "running"
    /\ IF \E t \in IpTasks : ipt[t].pc = "raised"
       THEN ipb' = [ipb EXCEPT !.status = "raised"]
       ELSE /\ \A t \in IpTasks : ipt[t].pc = "done"
            /\ ipb' = [ipb EXCEPT !.status = "returned", !.output = Output(ipt)]
    /\ UNCHANGED <<now, rl, call, firstReq, dohVars, latest, ipt, gen, resolver, life>>

IpTimerDue ==
    \E t \in IpTasks : ipt[t].pc \in {"gateSleep", "sleep429"} /\ ipt[t].wake <= now

IpRunnable ==
    \/ \E t \in IpTasks : ipt[t].pc = "start"
    \/ ENABLED IpGatherEnds

IpTick ==
    /\ now < MaxTimeIP
    /\ ~TimerDue /\ ~IpTimerDue /\ ~IpRunnable
    /\ ipb.status # "idle"
    /\ now' = now + 1
    /\ UNCHANGED <<rl, call, firstReq, dohVars, ipVars, resolver, life>>

\* IPResolver.chunks(lst, n) called on its own: the generator is created ...
ChunksCall(lst, n) ==
    /\ gen.state = "idle"
    /\ ipb.status = "idle"
    /\ gen' = [state |-> "running", lst |-> lst, n |-> n, i |-> 0, out |-> <<>>]
    /\ UNCHANGED <<now, rl, call, firstReq, dohVars, latest, ipt, ipb, resolver, life>>

\* ... and asked for its next chunk
ChunksNext ==
    /\ gen.state = "running"
    /\ LET r == Range(0, Len(gen.lst), gen.n)
       IN  IF gen.i < Len(r)
           THEN gen' = [gen EXCEPT !.i = @ + 1,
                           !.out = Append(@, Slice(gen.lst, r[gen.i + 1],
                                                   r[gen.i + 1] + gen.n))]
           ELSE gen' = [gen EXCEPT !.state = "done"]
    /\ UNCHANGED <<now, rl, call, firstReq, dohVars, latest, ipt, ipb, resolver, life>>

NextIP ==
    \/ \E ips \in IpLists : MassQueryIP(ips)
    \/ \E t \in IpTasks : IpStart(t)
    \/ \E t \in IpTasks : IpWake(t)
    \/ \E t \in IpTasks, r \in IpResponses : IpRespond(t, r)
    \/ IpGatherEnds
    \/ IpTick
    \/ \E lst \in SeqsUpTo(Domains, MaxChunkLen), n \in 1..MaxChunkN : ChunksCall(lst, n)
    \/ ChunksNext

SpecIP == InitIP /\ [][NextIP]_vars

\* ------------------------------------------------------ claims on SpecIP

\* C3: a chunk whose request fails does not make mass_query_json_ip_api
\* raise; the call still gets the results of the other chunks.
C3_ChunkFailureConfined == ipb.status # "raised"

Ceil(a, n) == (a + n - 1) \div n

\* cs cuts lst into ceil(len/n) consecutive slices of 1..n elements
IsChunking(lst, n, cs) ==
    /\ Len(cs) = Ceil(Len(lst), n)
    /\ \A k \in 1..Len(cs) : Len(cs[k]) >= 1 /\ Len(cs[k]) <= n
    /\ Chain(cs) = lst

\* C9: chunks(lst, n), n > 0, yields ceil(len/n) consecutive slices of at
\* most n keys whose concatenation is lst; the batch call makes one query
\* per slice of 99 keys, 3 for 250 keys, and the pairs it returns follow the
\* order of target_ips.
C9_Chunking ==
    /\ gen.state = "done" => IsChunking(gen.lst, gen.n, gen.out)
    /\ ipb.status # "idle" =>
          /\ IsChunking(ipb.target_ips, ChunkSize,
                        [t \in DOMAIN ipt |-> ipt[t].chunk])
          /\ Len(ipb.target_ips) = 250 => Len(ipt) = 3
    /\ ipb.status = "returned" =>
          [i \in 1..Len(ipb.output) |-> ipb.output[i][1]] = ipb.target_ips

\* the longest list went out as 3 chunk queries and the call has returned
C9_Witness ==
    /\ ipb.status = "returned"
    /\ Len(ipb.target_ips) = MaxIps
    /\ Len(ipt) = 3
    /\ Len(ipb.output) = MaxIps

\* C15: a chunk lookup that is asleep after an HTTP 429 goes on with its
\* work when the sleep is over; it does not end with an exception.
C15_NoAbortAfter429 ==
    [][\A t \in DOMAIN ipt :
          (ipt[t].pc = "sleep429" /\ t \in DOMAIN ipt') => ipt'[t].pc # "raised"]_vars

\* C17: the quota state the gate reads always holds a remaining count and a
\* reset window: the seeded values, or the last ones a response carried.
C17_QuotaStateWellFormed == ~latest.none /\ latest.hasRl

\* C22: the chunk requests handed to the transport since the last quota
\* observation are never more than the remaining count that observation
\* gave.
C22_SentWithinObservedQuota == ipb.sentSince <= ipb.obsRl

\* ------------------------------------------- SpecLife: ConwayGOL.py mainloop
\* cells is the dict of the program: a function from the y of every row
\* that has a living cell to the set of the x of its living cells.  The
\* empty dict is the function with the empty domain.

SLIDING_WINDOW_SIZE == 3

\* max(S) of a non-empty collection of integers
MaxOf(S) == CHOOSE m \in S : \A e \in S : e <= m

\* "y in cells and x in cells.get(y)"
HasCell(cells, y, x) == y \in DOMAIN cells /\ x \in cells[y]

\* the sliding window laid on (x_val, y_val): entry offset is 1 where the
\* dict has a cell
Window(cells, x_val, y_val) ==
    [offset \in 0..(SLIDING_WINDOW_SIZE * SLIDING_WINDOW_SIZE - 1) |->
        LET cell_offset_x == (offset % SLIDING_WINDOW_SIZE) - 1
            cell_offset_y == (offset \div SLIDING_WINDOW_SIZE) - 1
        IN  IF HasCell(cells, y_val + cell_offset_y, x_val + cell_offset_x)
            THEN 1 ELSE 0]

\* window.count(1)
CountOnes(window) == Cardinality({o \in DOMAIN window : window[o] = 1})

\* count_adjacent_cells: entry i is the count for x_val = i - 1
CountAdjacentCells_MiddleCounted(cells, max_x, y_val) ==
    [i \in 1..(max_x + 1) |-> CountOnes(Window(cells, i - 1, y_val))]

CountAdjacentCells(cells, max_x, y_val) ==
    [i \in 1..(max_x + 1) |->
        CountOnes([Window(cells, i - 1, y_val) EXCEPT ![4] = 0])]

\* create_line_buffer: the row it yields for row_num
LineBuffer(cells, row_num, max_x) ==
    [i \in 1..(max_x + 1) |-> IF HasCell(cells, row_num, i - 1) THEN 1 ELSE 0]

\* create_next_cells on zip(line_buffer, adj_cell_count)
CreateNextCells(line_buffer, adj_cell_count, max_x) ==
    [i \in 1..(max_x + 1) |->
        IF i > Len(line_buffer) \/ i > Len(adj_cell_count) THEN 0
        ELSE IF line_buffer[i] = 1
             THEN (IF 2 <= adj_cell_count[i] /\ adj_cell_count[i] <= 3 THEN 1 ELSE 0)
             ELSE (IF adj_cell_count[i] = 3 THEN 1 ELSE 0)]

\* _update_next_iter_cells: the dict after the row has been added
UpdateNextIterCells(next_iter_cells, new_cells_hor, y_val) ==
    LET xs == {i - 1 : i \in {j \in 1..Len(new_cells_hor) : new_cells_hor[j] = 1}}
    IN  IF xs = {} THEN next_iter_cells
        ELSE [y \in DOMAIN next_iter_cells \cup {y_val} |->
                IF y = y_val
                THEN (IF y \in DOMAIN next_iter_cells THEN next_iter_cells[y] ELSE {})
                     \cup xs
                ELSE next_iter_cells[y]]

\* operate_on_each_row from row y_val on, next_iter_cells built so far
RECURSIVE OperateFromRow(_, _, _, _, _)
OperateFromRow(cells, max_y, max_x, y_val, next_iter_cells) ==
    IF y_val > max_y THEN next_iter_cells
    ELSE LET line_buffer == LineBuffer(cells, y_val, max_x)
             new_cells_hor == CreateNextCells(line_buffer,
                                  CountAdjacentCells(cells, max_x, y_val), max_x)
         IN  OperateFromRow(cells, max_y, max_x, y_val + 1,
                 UpdateNextIterCells(next_iter_cells, new_cells_hor, y_val))

OperateOnEachRow(cells, max_y, max_x) == OperateFromRow(cells, max_y, max_x, 0, <<>>)

\* the dict that holds exactly the points of P
CellsOf(P) ==
    [y \in {p[2] : p \in P} |-> {p[1] : p \in {q \in P : q[2] = y}}]

\* the points of a dict
Points(cells) == UNION {{<<x, y>> : x \in cells[y]} : y \in DOMAIN cells}

InitialCells ==
    {CellsOf(P) : P \in (SUBSET ((0..(LifeSize - 1)) \X (0..(LifeSize - 1)))) \ {{}}}

\* mainloop(cells, ntimes, step, fps, show_background) is called
InitLife ==
    /\ now = 0
    /\ rl = <<>>
    /\ call = <<>>
    /\ firstReq = -1
    /\ batch = <<>> /\ cache = <<>> /\ doh = <<>>
    /\ IPUnused
    /\ resolver = NoResolver
    /\ \E cells \in InitialCells, ntimes \in 0..MaxGens :
          life = [status |-> "running", cells |-> cells, ntimes |-> ntimes, gens |-> 0]

\* one pass of the for loop of mainloop: max() of the empty dict raises
\* ValueError
MainloopIteration ==
    /\ life.status = "running"
    /\ life.gens < life.ntimes
    /\ IF DOMAIN life.cells = {}
       THEN life' = [life EXCEPT !.status = "raised"]
       ELSE LET cells == life.cells
                key_y == CHOOSE k \in DOMAIN cells :
                            \A j \in DOMAIN cells : MaxOf(cells[j]) <= MaxOf(cells[k])
                max_x == MaxOf(cells[key_y]) + 1
                max_y == MaxOf(DOMAIN cells) + 1
            IN  life' = [life EXCEPT !.cells = OperateOnEachRow(cells, max_y, max_x),
                                     !.gens = @ + 1]
    /\ UNCHANGED <<now, rl, call, firstReq, dohVars, ipVars, resolver>>

\* range(0, ntimes) is exhausted: mainloop returns
MainloopReturn ==
    /\ life.status = "running"
    /\ life.gens = life.ntimes
    /\ life' = [life EXCEPT !.status = "returned"]
    /\ UNCHANGED <<now, rl, call, firstReq, dohVars, ipVars, resolver>>

NextLife ==
    \/ MainloopIteration
    \/ MainloopReturn

SpecLife == InitLife /\ [][NextLife]_vars

\* ---------------------------------------------------- claims on SpecLife

\* the number of living cells around p, p itself left out
LiveNeighbours(p, live) ==
    Cardinality({q \in live : /\ q # p
                              /\ q[1] - p[1] \in {-1, 0, 1}
                              /\ q[2] - p[2] \in {-1, 0, 1}})

\* the rules of the game for cell p
ConwayAlive(p, live) ==
    IF p \in live THEN LiveNeighbours(p, live) \in {2, 3}
    ELSE LiveNeighbours(p, live) = 3

\* C13: a generation step yields the reference step on the non-negative
\* quadrant: every cell (x, y) with 0 <= x <= max_x + 1, 0 <= y <= max_y + 1
\* (max_x, max_y as mainloop computes them: one more than the largest
\* coordinates of a living cell) lives afterwards iff the rules say so, and
\* no cell lives anywhere else; negative coordinates are never created.
C13_StepIsConwayStep ==
    [][life'.gens = life.gens + 1 =>
          LET live == Points(life.cells)
              new == Points(life'.cells)
              xs == 0..(MaxOf({p[1] : p \in live}) + 2)
              ys == 0..(MaxOf({p[2] : p \in live}) + 2)
          IN  /\ new \subseteq xs \X ys
              /\ \A x \in xs, y \in ys : <<x, y>> \in new <=> ConwayAlive(<<x, y>>, live)
              /\ \A y \in DOMAIN life'.cells : life'.cells[y] # {}]_vars

\* a step has been taken in which a cell was born one column beyond the
\* largest x of the initial cells
C13_Witness ==
    /\ life.gens = 1
    /\ \E y \in DOMAIN life.cells : LifeSize \in life.cells[y]

\* C20: mainloop runs the generation step ntimes times and returns, also
\* when the cells die out before that.
C20_RunsNtimesGenerations ==
    /\ life.status # "raised"
    /\ life.status = "returned" => life.gens = life.ntimes
====
